---- MODULE Spec2Model ----
(***************************************************************************)
(* Huffman coding demo of src/main.cpp: frequency count, tree construction *)
(* on a min-priority queue, recursive code generation, encoding of the     *)
(* text and decoding of the encoded bits by walking the tree.              *)
(*                                                                         *)
(* Tree nodes live in an arena `nodes` (a sequence, index = the pointer);  *)
(* the null pointer is NULL.  The priority queue is the set of node        *)
(* pointers it holds; top() may return any element that Compare does not   *)
(* rank below another one, which covers every heap layout the standard     *)
(* library may choose among nodes of equal frequency.  The iteration order *)
(* of the unordered_map is likewise left open.                             *)
(***************************************************************************)
EXTENDS Integers, Sequences, FiniteSets, TLC

\* ------------------------------------------------------------- bounds
NumBytes == 3
MaxLen == 4

\* ------------------------------------------------------------- constants
NULL == 0
NUL == 0

Bytes == 0 .. (NumBytes - 1)
Texts == UNION {[1 .. k -> Bytes] : k \in 0 .. MaxLen}

VARIABLES
    pc,           \* position in main
    text,         \* the input text (line 76)
    freqMap,      \* unordered_map<char,int> freqMap
    visited,      \* keys of freqMap the loop of line 100 has passed
    nodes,        \* arena of HuffmanNode objects
    pq,           \* the priority queue: set of node pointers
    iters,        \* completed iterations of the merge loop
    root,         \* line 120
    huffmanCodes, \* unordered_map<char,string> huffmanCodes
    encodedText,  \* line 133
    stream,       \* the bit sequence the decode loop iterates over
    pos,          \* index of the next bit of the decode loop
    currentNode,  \* line 145
    decodedText,  \* line 144
    shown,        \* decoded texts written to the output (line 163)
    verdict       \* outcome reported by lines 167-171

vars == <<pc, text, freqMap, visited, nodes, pq, iters, root, huffmanCodes,
          encodedText, stream, pos, currentNode, decodedText, shown, verdict>>

\* ------------------------------------------------------------- helpers
Range(s) == {s[i] : i \in DOMAIN s}

EmptyMap == [x \in {} |-> 0]

RECURSIVE SumOver(_, _)
SumOver(S, f) ==
    IF S = {} THEN 0
    ELSE LET x == CHOOSE y \in S : TRUE IN f[x] + SumOver(S \ {x}, f)

\* ------------------------------------------------------------- HuffmanNode
LeafNode(data, freq) ==
    [data |-> data, freq |-> freq, left |-> NULL, right |-> NULL]

InternalNode_OneChild(l, r) ==
    [data |-> NUL, freq |-> nodes[l].freq + nodes[r].freq, left |-> l, right |-> NULL]

InternalNode(l, r) ==
    [data |-> NUL, freq |-> nodes[l].freq + nodes[r].freq, left |-> l, right |-> r]

isLeaf(n) == nodes[n].left = NULL /\ nodes[n].right = NULL

\* ------------------------------------------------------------- Compare
Compare_MaxHeap(a, b) == nodes[a].freq < nodes[b].freq

Compare_ByData(a, b) == nodes[a].data > nodes[b].data

Compare(a, b) == nodes[a].freq > nodes[b].freq

\* pq.top(): an element that the comparison ranks below no other element.
Tops(q) == {t \in q : \A m \in q : ~Compare(t, m)}

\* ------------------------------------------------------------- frequencies
FreqStep(m, c) ==
    IF c \in DOMAIN m THEN [m EXCEPT ![c] = @ + 1] ELSE (c :> 1) @@ m

RECURSIVE CountFreq(_, _, _)
CountFreq(t, i, m) ==
    IF i > Len(t) THEN m ELSE CountFreq(t, i + 1, FreqStep(m, t[i]))

\* ------------------------------------------------------------- generateCodes
LeafCode_NoSpecialCase(code) == code

LeafCode(code) == IF code = <<>> THEN <<0>> ELSE code

RightCode_SameBit(code) == Append(code, 0)

RightCode(code) == Append(code, 1)

\* The map after generateCodes(node, code, map): a later assignment to the
\* same key replaces the earlier one.
RECURSIVE generateCodes(_, _, _)
generateCodes(node, code, map) ==
    IF node = NULL THEN map
    ELSE IF isLeaf(node)
         THEN (nodes[node].data :> LeafCode(code)) @@ map
         ELSE generateCodes(nodes[node].right, RightCode(code),
                  generateCodes(nodes[node].left, Append(code, 0), map))

\* ------------------------------------------------------------- encoding
\* huffmanCodes[c]: operator[] yields an empty string for a missing key.
CodeOf(map, c) == IF c \in DOMAIN map THEN map[c] ELSE <<>>

\* The map after huffmanCodes[c] was evaluated for every c in S: operator[]
\* inserts a missing key.
Looked(map, S) == [c \in (DOMAIN map) \cup S |-> CodeOf(map, c)]

RECURSIVE Encode(_, _, _)
Encode(t, i, map) ==
    IF i > Len(t) THEN <<>> ELSE CodeOf(map, t[i]) \o Encode(t, i + 1, map)

\* ------------------------------------------------------------- Init
Init ==
    /\ pc = "start"
    /\ text \in Texts
    /\ freqMap = EmptyMap
    /\ visited = {}
    /\ nodes = <<>>
    /\ pq = {}
    /\ iters = 0
    /\ root = NULL
    /\ huffmanCodes = EmptyMap
    /\ encodedText = <<>>
    /\ stream = <<>>
    /\ pos = 1
    /\ currentNode = NULL
    /\ decodedText = <<>>
    /\ shown = <<>>
    /\ verdict = "none"

\* ------------------------------------------------------------- actions
\* lines 78-81
EmptyExit ==
    /\ pc = "start"
    /\ text = <<>>
    /\ pc' = "done"
    /\ verdict' = "empty"
    /\ UNCHANGED <<text, freqMap, visited, nodes, pq, iters, root, huffmanCodes,
                   encodedText, stream, pos, currentNode, decodedText, shown>>

\* lines 87-91
CountFrequencies ==
    /\ pc = "start"
    /\ text # <<>>
    /\ freqMap' = CountFreq(text, 1, EmptyMap)
    /\ pc' = "leaves"
    /\ UNCHANGED <<text, visited, nodes, pq, iters, root, huffmanCodes,
                   encodedText, stream, pos, currentNode, decodedText, shown, verdict>>

\* lines 100-102, one iteration
PushLeaf ==
    /\ pc = "leaves"
    /\ \E c \in DOMAIN freqMap \ visited :
          /\ nodes' = Append(nodes, LeafNode(c, freqMap[c]))
          /\ pq' = pq \cup {Len(nodes) + 1}
          /\ visited' = visited \cup {c}
    /\ UNCHANGED <<pc, text, freqMap, iters, root, huffmanCodes,
                   encodedText, stream, pos, currentNode, decodedText, shown, verdict>>

\* line 100: the range-for is exhausted
LeavesDone ==
    /\ pc = "leaves"
    /\ visited = DOMAIN freqMap
    /\ pc' = "merge"
    /\ UNCHANGED <<text, freqMap, visited, nodes, pq, iters, root, huffmanCodes,
                   encodedText, stream, pos, currentNode, decodedText, shown, verdict>>

LoopCond_OffByOne == Cardinality(pq) > 2

\* line 106
LoopCond == Cardinality(pq) > 1

\* lines 106-117, one iteration
MergeStep ==
    /\ pc = "merge"
    /\ LoopCond
    /\ \E left \in Tops(pq) :
          \E right \in Tops(pq \ {left}) :
             /\ nodes' = Append(nodes, InternalNode(left, right))
             /\ pq' = (pq \ {left, right}) \cup {Len(nodes) + 1}
    /\ iters' = iters + 1
    /\ UNCHANGED <<pc, text, freqMap, visited, root, huffmanCodes,
                   encodedText, stream, pos, currentNode, decodedText, shown, verdict>>

\* line 120
TakeRoot ==
    /\ pc = "merge"
    /\ ~LoopCond
    /\ \E t \in Tops(pq) : root' = t
    /\ pc' = "codes"
    /\ UNCHANGED <<text, freqMap, visited, nodes, pq, iters, huffmanCodes,
                   encodedText, stream, pos, currentNode, decodedText, shown, verdict>>

\* lines 123-124
GenerateCodes ==
    /\ pc = "codes"
    /\ huffmanCodes' = generateCodes(root, <<>>, EmptyMap)
    /\ pc' = "encode"
    /\ UNCHANGED <<text, freqMap, visited, nodes, pq, iters, root,
                   encodedText, stream, pos, currentNode, decodedText, shown, verdict>>

\* lines 133-136
EncodeText ==
    /\ pc = "encode"
    /\ encodedText' = Encode(text, 1, huffmanCodes)
    /\ huffmanCodes' = Looked(huffmanCodes, Range(text))
    /\ pc' = "startdecode"
    /\ UNCHANGED <<text, freqMap, visited, nodes, pq, iters, root,
                   stream, pos, currentNode, decodedText, shown, verdict>>

\* lines 144-147: the loop iterates over encodedText
StartDecode ==
    /\ pc = "startdecode"
    /\ stream' = encodedText
    /\ pos' = 1
    /\ currentNode' = root
    /\ decodedText' = <<>>
    /\ pc' = "decode"
    /\ UNCHANGED <<text, freqMap, visited, nodes, pq, iters, root, huffmanCodes,
                   encodedText, shown, verdict>>

\* ------------------------------------------------------------- decoding
\* lines 149-153: the child selected by the bit
Child(n, bit) == IF bit = 0 THEN nodes[n].left ELSE nodes[n].right

NextCursor_NoReset(n) == n

\* lines 156-159: the cursor after the node n has been entered
NextCursor(n) == IF isLeaf(n) THEN root ELSE n

\* lines 156-157: the text after the node n has been entered
Emit(n) == IF isLeaf(n) THEN Append(decodedText, nodes[n].data) ELSE decodedText

\* A member access through a null shared_ptr (currentNode->left at lines
\* 150/152, currentNode->isLeaf() at line 156) is undefined behaviour: the
\* process may be killed, or the read may yield anything, so that the node
\* is taken for a leaf holding some byte or for an internal node.
NullDereference ==
    \/ /\ pc' = "crashed"
       /\ UNCHANGED <<pos, currentNode, decodedText>>
    \/ /\ \E d \in Bytes : decodedText' = Append(decodedText, d)
       /\ currentNode' = root
       /\ pos' = pos + 1
       /\ UNCHANGED pc
    \/ /\ currentNode' = NULL
       /\ pos' = pos + 1
       /\ UNCHANGED <<pc, decodedText>>

\* lines 147-160, one iteration
DecodeBit ==
    /\ pc = "decode"
    /\ pos <= Len(stream)
    /\ LET next == IF currentNode = NULL THEN NULL
                   ELSE Child(currentNode, stream[pos])
       IN IF next = NULL
          THEN NullDereference
          ELSE /\ decodedText' = Emit(next)
               /\ currentNode' = NextCursor(next)
               /\ pos' = pos + 1
               /\ UNCHANGED pc
    /\ UNCHANGED <<text, freqMap, visited, nodes, pq, iters, root, huffmanCodes,
                   encodedText, stream, shown, verdict>>

\* lines 162-173
Report ==
    /\ pc = "decode"
    /\ pos > Len(stream)
    /\ shown' = Append(shown, decodedText)
    /\ verdict' = IF text = decodedText THEN "Success" ELSE "Failure"
    /\ pc' = "done"
    /\ UNCHANGED <<text, freqMap, visited, nodes, pq, iters, root, huffmanCodes,
                   encodedText, stream, pos, currentNode, decodedText>>

\* A payload whose tail was cut off, handed to the decode loop of lines
\* 144-160 in place of the whole encodedText.
StartDecodeTruncated ==
    /\ pc = "startdecode"
    /\ \E k \in 0 .. (Len(encodedText) - 1) : stream' = SubSeq(encodedText, 1, k)
    /\ pos' = 1
    /\ currentNode' = root
    /\ decodedText' = <<>>
    /\ pc' = "decode"
    /\ UNCHANGED <<text, freqMap, visited, nodes, pq, iters, root, huffmanCodes,
                   encodedText, shown, verdict>>

\* ------------------------------------------------------------- specifications
Next ==
    \/ EmptyExit
    \/ CountFrequencies
    \/ PushLeaf
    \/ LeavesDone
    \/ MergeStep
    \/ TakeRoot
    \/ GenerateCodes
    \/ EncodeText
    \/ StartDecode
    \/ DecodeBit
    \/ Report

Spec == Init /\ [][Next]_vars

\* main runs to completion: every step that can be taken is taken.
FairSpec == Init /\ [][Next]_vars /\ WF_vars(Next)

NextCorrupt ==
    \/ EmptyExit
    \/ CountFrequencies
    \/ PushLeaf
    \/ LeavesDone
    \/ MergeStep
    \/ TakeRoot
    \/ GenerateCodes
    \/ EncodeText
    \/ StartDecodeTruncated
    \/ DecodeBit
    \/ Report

SpecCorrupt == Init /\ [][NextCorrupt]_vars

\* ------------------------------------------------------------- vocabulary of the properties
Symbols == Range(text)

Distinct == Cardinality(Symbols)

CodesReady == pc \in {"encode", "startdecode", "decode", "done", "crashed"}

IsPrefix(s, t) == Len(s) <= Len(t) /\ SubSeq(t, 1, Len(s)) = s

\* The nodes of the tree hanging from node n.
RECURSIVE Subtree(_)
Subtree(n) ==
    IF n = NULL THEN {}
    ELSE {n} \cup Subtree(nodes[n].left) \cup Subtree(nodes[n].right)

\* Number of bits the code table spends on the whole text.
EncodedLength ==
    SumOver(Symbols, [c \in Symbols |-> freqMap[c] * Len(huffmanCodes[c])])

\* Leaf depths of every full binary tree whose leaves are the set S: a lone
\* leaf, or a root over two full binary trees that split S.
RECURSIVE Depths(_)
Depths(S) ==
    IF Cardinality(S) = 1 THEN {[c \in S |-> 0]}
    ELSE UNION {{[c \in S |-> 1 + (IF c \in A THEN dl[c] ELSE dr[c])] :
                     dl \in Depths(A), dr \in Depths(S \ A)} :
                A \in (SUBSET S) \ {{}, S}}

\* Bits spent on the text by a tree with leaf depths d (a lone leaf gets a
\* one-bit code).
LengthUnder(d) ==
    SumOver(Symbols,
            [c \in Symbols |-> freqMap[c] * (IF d[c] = 0 THEN 1 ELSE d[c])])

\* The decode loop ended in the middle of a codeword.
OnInternal ==
    /\ currentNode \in 1 .. Len(nodes)
    /\ currentNode # root
    /\ ~isLeaf(currentNode)

\* ------------------------------------------------------------- properties

\* C1: whenever main ends, it ends normally and the decoded text equals the
\* input text (round trip of encode and decode), for every input text.
C1_RoundTrip ==
    pc \in {"done", "crashed"} => (pc = "done" /\ decodedText = text)

\* C2: in the generated code table no code of one byte is a prefix of, or
\* equal to, the code of a different byte.
C2_PrefixFree ==
    CodesReady =>
        \A a, b \in DOMAIN huffmanCodes :
            a # b => ~IsPrefix(huffmanCodes[a], huffmanCodes[b])

C2_Witness ==
    /\ CodesReady
    /\ Cardinality(DOMAIN huffmanCodes) = 3
    /\ \E a, b \in DOMAIN huffmanCodes : Len(huffmanCodes[a]) < Len(huffmanCodes[b])

\* C3: a byte that is strictly more frequent than another never has a
\* longer code.
C3_Monotone ==
    CodesReady =>
        \A a, b \in DOMAIN huffmanCodes :
            freqMap[a] > freqMap[b] => Len(huffmanCodes[a]) <= Len(huffmanCodes[b])

C3_Witness ==
    /\ CodesReady
    /\ \E a, b \in DOMAIN huffmanCodes :
          /\ freqMap[a] > freqMap[b]
          /\ Len(huffmanCodes[a]) < Len(huffmanCodes[b])

\* C4: the keys of the code table are exactly the distinct bytes of the
\* text, every code is a non-empty bit string, and a text with one distinct
\* byte maps it to the one-bit code "0".
C4_TableComplete ==
    CodesReady =>
        /\ DOMAIN huffmanCodes = Symbols
        /\ \A c \in DOMAIN huffmanCodes :
              /\ huffmanCodes[c] # <<>>
              /\ Range(huffmanCodes[c]) \subseteq {0, 1}
        /\ Distinct = 1 => \A c \in Symbols : huffmanCodes[c] = <<0>>

C4_Witness ==
    /\ CodesReady
    /\ Distinct = 1
    /\ Len(text) > 1
    /\ DOMAIN huffmanCodes = Symbols

\* C5: the code table that generateCodes has just produced from the built
\* tree spends no more bits on the text than any full binary tree over the
\* same bytes would.
C5_MinimumLength ==
    pc = "encode" => \A d \in Depths(Symbols) : EncodedLength <= LengthUnder(d)

C5_Witness ==
    /\ pc = "encode"
    /\ Distinct = 3
    /\ \E d \in Depths(Symbols) : EncodedLength < LengthUnder(d)

\* C6: when the bit stream ends while the cursor is on an internal node,
\* main reports a format error and shows no decoded text.
C6_NoPartialResult ==
    (pc = "done" /\ text # <<>> /\ OnInternal) =>
        (verdict = "FormatError" /\ shown = <<>>)

\* C8: every node of every tree held in the priority queue is a leaf (no
\* children, holding a byte of the text with its frequency) or has two
\* children whose frequencies sum to its own.
C8_FullBinaryTree ==
    \A r \in pq : \A n \in Subtree(r) :
        \/ /\ nodes[n].left = NULL
           /\ nodes[n].right = NULL
           /\ nodes[n].data \in Symbols
           /\ nodes[n].freq = freqMap[nodes[n].data]
        \/ /\ nodes[n].left # NULL
           /\ nodes[n].right # NULL
           /\ nodes[n].freq = nodes[nodes[n].left].freq + nodes[nodes[n].right].freq

C8_Witness ==
    /\ pc = "merge"
    /\ iters >= 1
    /\ Cardinality(pq) >= 2
    /\ \E r \in pq : ~isLeaf(r)

\* C9: from n >= 1 leaves the merge loop removes two nodes and inserts one
\* per iteration, ends, and has then run exactly n-1 times and left exactly
\* one node in the queue, which is the root.
C9_MergeTerminates ==
    /\ [](pc = "merge" => Cardinality(pq) = Distinct - iters)
    /\ [][(pc = "merge" /\ iters' # iters) =>
              /\ iters' = iters + 1
              /\ Cardinality(pq \ pq') = 2
              /\ Cardinality(pq' \ pq) = 1]_vars
    /\ []((text # <<>> /\ (CodesReady \/ pc = "codes")) =>
              /\ iters = Distinct - 1
              /\ pq = {root})
    /\ (pc = "merge") ~> (pc = "codes")

C9_Witness ==
    /\ pc = "codes"
    /\ Distinct = 3
    /\ iters = 2

\* C10: for a text with at least two distinct bytes, the decode cursor is
\* always a node of the tree, every step enters an existing child and
\* resets the cursor to the root exactly when that child is a leaf, and at
\* the end of the bits the cursor is the root and as many bytes were
\* emitted as the text holds.
C10_CursorDiscipline ==
    /\ []((Distinct >= 2 /\ CodesReady) => pc # "crashed")
    /\ []((Distinct >= 2 /\ pc = "decode") => currentNode \in Subtree(root))
    /\ [][(Distinct >= 2 /\ pc = "decode" /\ pos' # pos) =>
              LET next == Child(currentNode, stream[pos])
              IN /\ next # NULL
                 /\ (currentNode' = root) <=> isLeaf(next)
                 /\ Len(decodedText') = Len(decodedText) + (IF isLeaf(next) THEN 1 ELSE 0)]_vars
    /\ []((Distinct >= 2 /\ pc = "done") =>
              /\ pos = Len(encodedText) + 1
              /\ currentNode = root
              /\ Len(decodedText) = Len(text))

C10_Witness ==
    /\ pc = "done"
    /\ Distinct = 3
    /\ Len(text) > 3
    /\ currentNode = root

====
